---- MODULE Spec2Model ----
(***************************************************************************)
(* Model of usbrly08.py: the usbrly protocol codec (class usbrly) driving  *)
(* a byte channel (self.fd), and the command line tool main().            *)
(*                                                                         *)
(* The channel is modelled as a recording of the calls made on it (chan).  *)
(* Every codec method is one action: it appends the channel calls it makes *)
(* to chan and one record of the call (arguments, exception or return      *)
(* value) to calls.  The channel's behaviour is an input of every action:  *)
(* a write succeeds or raises, a read raises or returns at most the        *)
(* requested number of bytes.                                              *)
(***************************************************************************)
EXTENDS Integers, Sequences, FiniteSets, TLC

VARIABLES chan, calls, pc, argv, args, idx, port, stdout

vars == <<chan, calls, pc, argv, args, idx, port, stdout>>

(* ------------------------------ bounds -------------------------------- *)

\* Number of codec calls made on one channel in the library specifications.
MaxCalls == 1
\* Number of codec calls in the call-sequence specification SpecSeq.
MaxSeq == 3
\* How far beyond the valid ranges relay indices and masks are drawn.
MaxOut == 2
\* Number of options on the command line of the tool.
MaxArgs == 3

(* ------------------------- command bytes (CMDS) ----------------------- *)

GET_SERIAL == 56
GET_SW_VERSION == 90
GET_STATES == 91
SET_STATES == 92
ALL_ON == 100
FIRST_ON == 101
ALL_OFF == 110
FIRST_OFF == 111

\* Valid relay indices: "relay < 0 or relay > 7".
RelayMin == 0
RelayMax == 7
\* Valid masks: "states < 0 or states > 0xFF".
StatesMin == 0
StatesMax == 255

(* ------------------------- values and results ------------------------- *)

Byte == 0..255

\* Behaviour of fd.write: it completes or raises the channel's own error.
WriteOutcomes == {"ok", "error"}

\* Behaviour of fd.read(n): it raises (ReadError), or returns bytes, possibly
\* fewer than n when the timeout expires (ReadData).
\* Python values returned by the methods.
None == [kind |-> "None"]
PyInt(n) == [kind |-> "int", v |-> n]
PyTuple(t) == [kind |-> "tuple", v |-> t]
PyStr(s) == [kind |-> "str", v |-> s]
\* What the caller gets when the method raised: nothing.
NoValue == [kind |-> "raise"]

ReadError == [ok |-> FALSE, data |-> <<>>]
ReadData(d) == [ok |-> TRUE, data |-> d]

\* One call on the channel, as a recording channel sees it: what was asked
\* (the bytes to write, the number of bytes to read) and what came of it.
Wr(data, w) == [op |-> "write", data |-> data, size |-> Len(data),
                ok |-> (w = "ok")]
Rd(n, r) == [op |-> "read", data |-> r.data, size |-> n, ok |-> r.ok]

\* Outcome of a method: the channel calls it made, and how it ended.
Return(ev, value) == [events |-> ev, raised |-> "none", ret |-> value]
Raise(ev, exc) == [events |-> ev, raised |-> exc, ret |-> NoValue]

\* struct.unpack of unsigned bytes: one int per byte, in order.
unpack_B(buf) == [i \in 1..Len(buf) |-> buf[i] % 256]

\* bytes.decode('ascii'), strict: ok only when every byte is below 128.
IsAscii(buf) == \A i \in 1..Len(buf) : buf[i] < 128
decode_ascii(buf) == [i \in 1..Len(buf) |-> buf[i]]

(* ----------------------------- the codec ------------------------------ *)

\* Mutant of set_state: the on and off base opcodes are swapped.
set_state_swapped(relay, state, w) ==
    IF relay < RelayMin \/ relay > RelayMax
    THEN Raise(<<>>, "ValueError")
    ELSE LET controlByte == IF state THEN FIRST_OFF + relay
                                     ELSE FIRST_ON + relay
         IN  IF w = "error"
             THEN Raise(<<Wr(<<controlByte>>, w)>>, "ChannelError")
             ELSE Return(<<Wr(<<controlByte>>, w)>>, None)

\* Mutant of set_state: the opcode is computed first and the upper limit of
\* the guard is off by one.
set_state_late_guard(relay, state, w) ==
    LET controlByte == IF state THEN FIRST_ON + relay
                                ELSE FIRST_OFF + relay
    IN  IF relay < RelayMin \/ relay > RelayMax + 1
        THEN Raise(<<>>, "ValueError")
        ELSE IF w = "error"
             THEN Raise(<<Wr(<<controlByte>>, w)>>, "ChannelError")
             ELSE Return(<<Wr(<<controlByte>>, w)>>, None)

set_state(relay, state, w) ==
    IF relay < RelayMin \/ relay > RelayMax
    THEN Raise(<<>>, "ValueError")
    ELSE LET controlByte == IF state THEN FIRST_ON + relay
                                     ELSE FIRST_OFF + relay
         IN  IF w = "error"
             THEN Raise(<<Wr(<<controlByte>>, w)>>, "ChannelError")
             ELSE Return(<<Wr(<<controlByte>>, w)>>, None)

\* Mutant of set_states: the upper limit is off by one.
set_states_off_by_one(states, w) ==
    IF states.type # "int"
    THEN Raise(<<>>, "ValueError")
    ELSE IF states.v < StatesMin \/ states.v > StatesMax + 1
         THEN Raise(<<>>, "ValueError")
         ELSE IF w = "error"
              THEN Raise(<<Wr(<<SET_STATES, states.v>>, w)>>, "ChannelError")
              ELSE Return(<<Wr(<<SET_STATES, states.v>>, w)>>, None)

set_states(states, w) ==
    IF states.type # "int"
    THEN Raise(<<>>, "ValueError")
    ELSE IF states.v < StatesMin \/ states.v > StatesMax
         THEN Raise(<<>>, "ValueError")
         ELSE IF w = "error"
              THEN Raise(<<Wr(<<SET_STATES, states.v>>, w)>>, "ChannelError")
              ELSE Return(<<Wr(<<SET_STATES, states.v>>, w)>>, None)

\* Mutant of get_states: a short read yields the default 0.
get_states_default(w, r) ==
    LET e1 == <<Wr(<<GET_STATES>>, w)>>
        e2 == <<Wr(<<GET_STATES>>, w), Rd(1, r)>>
    IN  IF w = "error" THEN Raise(e1, "ChannelError")
        ELSE IF ~r.ok THEN Raise(e2, "ChannelError")
        ELSE IF Len(r.data) # 1 THEN Return(e2, PyInt(0))
        ELSE Return(e2, PyInt(unpack_B(r.data)[1]))

\* Mutant of get_states: a failed write is swallowed and the read goes on.
get_states_swallow(w, r) ==
    LET e2 == <<Wr(<<GET_STATES>>, w), Rd(1, r)>>
    IN  IF ~r.ok THEN Raise(e2, "ChannelError")
        ELSE IF Len(r.data) # 1 THEN Raise(e2, "OSError")
        ELSE Return(e2, PyInt(unpack_B(r.data)[1]))

get_states(w, r) ==
    LET e1 == <<Wr(<<GET_STATES>>, w)>>
        e2 == <<Wr(<<GET_STATES>>, w), Rd(1, r)>>
    IN  IF w = "error" THEN Raise(e1, "ChannelError")
        ELSE IF ~r.ok THEN Raise(e2, "ChannelError")
        ELSE IF Len(r.data) # 1 THEN Raise(e2, "OSError")
        ELSE Return(e2, PyInt(unpack_B(r.data)[1]))

\* Mutant of set_all: the two command bytes are swapped.
set_all_swapped(state, w) ==
    LET controlByte == IF state THEN ALL_OFF ELSE ALL_ON
    IN  IF w = "error"
        THEN Raise(<<Wr(<<controlByte>>, w)>>, "ChannelError")
        ELSE Return(<<Wr(<<controlByte>>, w)>>, None)

set_all(state, w) ==
    LET controlByte == IF state THEN ALL_ON ELSE ALL_OFF
    IN  IF w = "error"
        THEN Raise(<<Wr(<<controlByte>>, w)>>, "ChannelError")
        ELSE Return(<<Wr(<<controlByte>>, w)>>, None)

\* Mutant of get_serial: non-ASCII bytes are dropped instead of refused.
get_serial_lenient(w, r) ==
    LET e1 == <<Wr(<<GET_SERIAL>>, w)>>
        e2 == <<Wr(<<GET_SERIAL>>, w), Rd(8, r)>>
    IN  IF w = "error" THEN Raise(e1, "ChannelError")
        ELSE IF ~r.ok THEN Raise(e2, "ChannelError")
        ELSE IF Len(r.data) # 8 THEN Raise(e2, "OSError")
        ELSE Return(e2, PyStr(decode_ascii(SelectSeq(r.data, LAMBDA b : b < 128))))

\* Mutant of get_serial: a short read is retried once.
get_serial_retry(w, r) ==
    LET e1 == <<Wr(<<GET_SERIAL>>, w)>>
        e2 == <<Wr(<<GET_SERIAL>>, w), Rd(8, r)>>
    IN  IF w = "error" THEN Raise(e1, "ChannelError")
        ELSE IF ~r.ok THEN Raise(e2, "ChannelError")
        ELSE IF Len(r.data) # 8 THEN Raise(Append(e2, Rd(8, r)), "OSError")
        ELSE IF ~IsAscii(r.data) THEN Raise(e2, "UnicodeDecodeError")
        ELSE Return(e2, PyStr(decode_ascii(r.data)))

get_serial(w, r) ==
    LET e1 == <<Wr(<<GET_SERIAL>>, w)>>
        e2 == <<Wr(<<GET_SERIAL>>, w), Rd(8, r)>>
    IN  IF w = "error" THEN Raise(e1, "ChannelError")
        ELSE IF ~r.ok THEN Raise(e2, "ChannelError")
        ELSE IF Len(r.data) # 8 THEN Raise(e2, "OSError")
        ELSE IF ~IsAscii(r.data) THEN Raise(e2, "UnicodeDecodeError")
        ELSE Return(e2, PyStr(decode_ascii(r.data)))

\* Mutant of get_sw_version: the two bytes are returned in reverse order.
get_sw_version_reversed(w, r) ==
    LET e1 == <<Wr(<<GET_SW_VERSION>>, w)>>
        e2 == <<Wr(<<GET_SW_VERSION>>, w), Rd(2, r)>>
    IN  IF w = "error" THEN Raise(e1, "ChannelError")
        ELSE IF ~r.ok THEN Raise(e2, "ChannelError")
        ELSE IF Len(r.data) # 2 THEN Raise(e2, "OSError")
        ELSE Return(e2, PyTuple(<<unpack_B(r.data)[2], unpack_B(r.data)[1]>>))

get_sw_version(w, r) ==
    LET e1 == <<Wr(<<GET_SW_VERSION>>, w)>>
        e2 == <<Wr(<<GET_SW_VERSION>>, w), Rd(2, r)>>
    IN  IF w = "error" THEN Raise(e1, "ChannelError")
        ELSE IF ~r.ok THEN Raise(e2, "ChannelError")
        ELSE IF Len(r.data) # 2 THEN Raise(e2, "OSError")
        ELSE Return(e2, PyTuple(unpack_B(r.data)))

(* ------------------------- inputs of the calls ------------------------ *)

\* Relay indices tried: the valid ones and MaxOut more on either side.
Relays == (RelayMin - MaxOut)..(RelayMax + MaxOut)

\* Masks tried: every valid int, MaxOut more on either side, and the two
\* bools, which are not of type int.
Masks == {[type |-> "int", v |-> m] :
             m \in (StatesMin - MaxOut)..(StatesMax + MaxOut)}
         \cup {[type |-> "bool", v |-> m] : m \in {0, 1}}

SampleBytes == {0, 2, 5, 65, 127, 128, 255}

\* The serial number of the specification's example, "ABCD1234".
ABCD1234 == <<65, 66, 67, 68, 49, 50, 51, 52>>

\* n bytes, all b except byte p, which is c.
Pattern(n, b, p, c) == [i \in 1..n |-> IF i = p THEN c ELSE b]

\* What fd.read(1) may do: raise, time out with nothing, or return a byte.
StatesReads == {ReadError, ReadData(<<>>)} \cup {ReadData(<<b>>) : b \in Byte}

\* What fd.read(2) may do.
VersionReads == {ReadError, ReadData(<<>>)}
                \cup {ReadData(<<b>>) : b \in SampleBytes}
                \cup {ReadData(<<b, c>>) : b \in SampleBytes, c \in SampleBytes}

\* What fd.read(8) may do.
SerialReads == {ReadError, ReadData(ABCD1234)}
               \cup {ReadData(Pattern(n, b, 1, c)) :
                        n \in 0..7, b \in {65}, c \in {65, 128}}
               \cup {ReadData(Pattern(8, b, p, c)) :
                        b \in {48, 127}, p \in 1..8, c \in SampleBytes}

\* The few inputs used where calls follow one another (SpecSeq, SpecCli).
FewRelays == {RelayMax, RelayMax + 1}
FewMasks == {[type |-> "int", v |-> m] : m \in {StatesMax, StatesMax + 1}}
FewStatesReads == {ReadError, ReadData(<<>>), ReadData(<<10>>)}
FewVersionReads == {ReadError, ReadData(<<5>>), ReadData(<<5, 2>>)}
FewSerialReads == {ReadError, ReadData(SubSeq(ABCD1234, 1, 5)),
                   ReadData(ABCD1234)}

(* ------------------------ the library's actions ----------------------- *)

\* The module used as a library: main() is never entered.
NotCli == pc = "library"

\* One call of a codec method: the channel calls it makes are appended to
\* the channel's history and the call is logged with its result.
Do(op, a, res) ==
    /\ chan' = chan \o res.events
    /\ calls' = Append(calls, [op |-> op, args |-> a,
                               raised |-> res.raised, ret |-> res.ret,
                               first |-> Len(chan) + 1,
                               last |-> Len(chan) + Len(res.events)])

SetState(limit, R) ==
    /\ NotCli /\ Len(calls) < limit
    /\ \E relay \in R, state \in BOOLEAN, w \in WriteOutcomes :
          Do("set_state", <<relay, state>>, set_state(relay, state, w))
    /\ UNCHANGED <<pc, argv, args, idx, port, stdout>>

SetStates(limit, M) ==
    /\ NotCli /\ Len(calls) < limit
    /\ \E states \in M, w \in WriteOutcomes :
          Do("set_states", <<states>>, set_states(states, w))
    /\ UNCHANGED <<pc, argv, args, idx, port, stdout>>

GetStates(limit, RS) ==
    /\ NotCli /\ Len(calls) < limit
    /\ \E w \in WriteOutcomes, r \in RS :
          Do("get_states", <<>>, get_states(w, r))
    /\ UNCHANGED <<pc, argv, args, idx, port, stdout>>

SetAll(limit) ==
    /\ NotCli /\ Len(calls) < limit
    /\ \E state \in BOOLEAN, w \in WriteOutcomes :
          Do("set_all", <<state>>, set_all(state, w))
    /\ UNCHANGED <<pc, argv, args, idx, port, stdout>>

GetSerial(limit, RS) ==
    /\ NotCli /\ Len(calls) < limit
    /\ \E w \in WriteOutcomes, r \in RS :
          Do("get_serial", <<>>, get_serial(w, r))
    /\ UNCHANGED <<pc, argv, args, idx, port, stdout>>

GetSwVersion(limit, RS) ==
    /\ NotCli /\ Len(calls) < limit
    /\ \E w \in WriteOutcomes, r \in RS :
          Do("get_sw_version", <<>>, get_sw_version(w, r))
    /\ UNCHANGED <<pc, argv, args, idx, port, stdout>>

NoArgs == [all_relays |-> "None", relay_on |-> <<>>, relay_off |-> <<>>,
           relays |-> FALSE, get_serial |-> FALSE, get_version |-> FALSE]

\* usbrly(fd) on a fresh channel: nothing written, nothing read.
Init ==
    /\ chan = <<>>
    /\ calls = <<>>
    /\ pc = "library"
    /\ argv = <<>>
    /\ args = NoArgs
    /\ idx = 0
    /\ port = "unopened"
    /\ stdout = <<>>

Next ==
    \/ SetState(MaxCalls, Relays)
    \/ SetStates(MaxCalls, Masks)
    \/ GetStates(MaxCalls, StatesReads)
    \/ SetAll(MaxCalls)
    \/ GetSerial(MaxCalls, SerialReads)
    \/ GetSwVersion(MaxCalls, VersionReads)

Spec == Init /\ [][Next]_vars

NextSeq ==
    \/ SetState(MaxSeq, FewRelays)
    \/ SetStates(MaxSeq, FewMasks)
    \/ GetStates(MaxSeq, FewStatesReads)
    \/ SetAll(MaxSeq)
    \/ GetSerial(MaxSeq, FewSerialReads)
    \/ GetSwVersion(MaxSeq, FewVersionReads)

SpecSeq == Init /\ [][NextSeq]_vars

(* ------------------------- the command line tool ---------------------- *)

\* The options of the tool that main() acts on.  --port is required and is
\* always given; it and --timeout only choose how the port is opened.
CliRelays == {RelayMin, RelayMax, RelayMax + 1}
Options == {[opt |-> "--all-relays", val |-> v] : v \in {"on", "off"}}
           \cup {[opt |-> "--relay-on", val |-> r] : r \in CliRelays}
           \cup {[opt |-> "--relay-off", val |-> r] : r \in CliRelays}
           \cup {[opt |-> o, val |-> TRUE] :
                    o \in {"--relays", "--get-serial", "--get-version"}}

CommandLines == UNION {[1..n -> Options] : n \in 0..MaxArgs}

Given(line, o) == SelectSeq(line, LAMBDA t : t.opt = o)
Values(line, o) == [k \in 1..Len(Given(line, o)) |-> Given(line, o)[k].val]

\* argparse refuses a relay outside choices=range(0, 8) and exits.
Refused(line) ==
    \E k \in 1..Len(line) :
        /\ line[k].opt \in {"--relay-on", "--relay-off"}
        /\ line[k].val \notin RelayMin..RelayMax

\* ap.parse_args(): a stored option keeps its last value, an appended one
\* collects its values in the order given, a flag is set when given.  An
\* appended option that is not given is None, which main() treats as the
\* empty list.
parse_args(line) ==
    [all_relays |-> IF Given(line, "--all-relays") = <<>> THEN "None"
                    ELSE Given(line, "--all-relays")
                             [Len(Given(line, "--all-relays"))].val,
     relay_on |-> Values(line, "--relay-on"),
     relay_off |-> Values(line, "--relay-off"),
     relays |-> Given(line, "--relays") # <<>>,
     get_serial |-> Given(line, "--get-serial") # <<>>,
     get_version |-> Given(line, "--get-version") # <<>>]

\* Mutant of MainOrder: --relay-off is handled before --relay-on.
MainOrder_OffBeforeOn ==
    <<"all_relays", "relay_off", "relay_on", "relays", "get_serial",
      "get_version", "close", "done">>

\* The order of the sections of main() after the port is opened.
MainOrder ==
    <<"all_relays", "relay_on", "relay_off", "relays", "get_serial",
      "get_version", "close", "done">>

After(section) ==
    MainOrder[1 + CHOOSE k \in 1..Len(MainOrder) : MainOrder[k] = section]

\* A codec call made by main(): an exception is not caught and ends main().
Call(op, a, res, next) ==
    /\ Do(op, a, res)
    /\ pc' = IF res.raised = "none" THEN next ELSE "raised"

\* "states & 1 << i"
BitSet(states, i) == (states \div (2 ^ i)) % 2 = 1

Line(fmt, vals) == [fmt |-> fmt, vals |-> vals]

\* "import serial": without pyserial the tool prints the error and exits.
ImportSerial ==
    /\ pc = "import"
    /\ \/ pc' = "parse_args" /\ UNCHANGED stdout
       \/ /\ pc' = "exit"
          /\ stdout' = Append(stdout, Line("Importing pyserial failed: {0}",
                                           <<"ImportError">>))
    /\ UNCHANGED <<chan, calls, argv, args, idx, port>>

ParseArgs ==
    /\ pc = "parse_args"
    /\ IF Refused(argv)
       THEN pc' = "exit" /\ UNCHANGED args
       ELSE pc' = "open" /\ args' = parse_args(argv)
    /\ UNCHANGED <<chan, calls, argv, idx, port, stdout>>

\* serial.Serial(args.port, timeout=args.timeout), which may raise.
OpenPort ==
    /\ pc = "open"
    /\ \/ port' = "open" /\ pc' = MainOrder[1]
       \/ port' = port /\ pc' = "raised"
    /\ UNCHANGED <<chan, calls, argv, args, idx, stdout>>

HandleAllRelays ==
    /\ pc = "all_relays"
    /\ IF args.all_relays = "on"
       THEN \E w \in WriteOutcomes :
               Call("set_all", <<TRUE>>, set_all(TRUE, w), After(pc))
       ELSE IF args.all_relays = "off"
       THEN \E w \in WriteOutcomes :
               Call("set_all", <<FALSE>>, set_all(FALSE, w), After(pc))
       ELSE pc' = After(pc) /\ UNCHANGED <<chan, calls>>
    /\ idx' = 1
    /\ UNCHANGED <<argv, args, port, stdout>>

HandleRelayOn ==
    /\ pc = "relay_on"
    /\ IF idx <= Len(args.relay_on)
       THEN /\ \E w \in WriteOutcomes :
                  Call("set_state", <<args.relay_on[idx], TRUE>>,
                       set_state(args.relay_on[idx], TRUE, w), pc)
            /\ idx' = idx + 1
       ELSE pc' = After(pc) /\ idx' = 1 /\ UNCHANGED <<chan, calls>>
    /\ UNCHANGED <<argv, args, port, stdout>>

HandleRelayOff ==
    /\ pc = "relay_off"
    /\ IF idx <= Len(args.relay_off)
       THEN /\ \E w \in WriteOutcomes :
                  Call("set_state", <<args.relay_off[idx], FALSE>>,
                       set_state(args.relay_off[idx], FALSE, w), pc)
            /\ idx' = idx + 1
       ELSE pc' = After(pc) /\ idx' = 1 /\ UNCHANGED <<chan, calls>>
    /\ UNCHANGED <<argv, args, port, stdout>>

HandleRelays ==
    /\ pc = "relays"
    /\ IF args.relays
       THEN \E w \in WriteOutcomes, r \in FewStatesReads :
               LET res == get_states(w, r) IN
               /\ Call("get_states", <<>>, res, After(pc))
               /\ stdout' =
                    IF res.raised # "none" THEN stdout
                    ELSE stdout \o <<Line("0x%.2x", <<res.ret.v>>)>>
                         \o [i \in 1..8 |->
                               Line("%u %s",
                                    <<i - 1, IF BitSet(res.ret.v, i - 1)
                                             THEN "on" ELSE "off">>)]
       ELSE pc' = After(pc) /\ UNCHANGED <<chan, calls, stdout>>
    /\ UNCHANGED <<argv, args, idx, port>>

HandleGetSerial ==
    /\ pc = "get_serial"
    /\ IF args.get_serial
       THEN \E w \in WriteOutcomes, r \in FewSerialReads :
               LET res == get_serial(w, r) IN
               /\ Call("get_serial", <<>>, res, After(pc))
               /\ stdout' =
                    IF res.raised # "none" THEN stdout
                    ELSE Append(stdout, Line("%s", <<res.ret.v>>))
       ELSE pc' = After(pc) /\ UNCHANGED <<chan, calls, stdout>>
    /\ UNCHANGED <<argv, args, idx, port>>

HandleGetVersion ==
    /\ pc = "get_version"
    /\ IF args.get_version
       THEN \E w \in WriteOutcomes, r \in FewVersionReads :
               LET res == get_sw_version(w, r) IN
               /\ Call("get_sw_version", <<>>, res, After(pc))
               /\ stdout' =
                    IF res.raised # "none" THEN stdout
                    ELSE Append(stdout,
                                Line("%.2x %.2x",
                                     <<res.ret.v[1], res.ret.v[2]>>))
       ELSE pc' = After(pc) /\ UNCHANGED <<chan, calls, stdout>>
    /\ UNCHANGED <<argv, args, idx, port>>

\* s.close()
ClosePort ==
    /\ pc = "close"
    /\ port' = "closed"
    /\ pc' = After(pc)
    /\ UNCHANGED <<chan, calls, argv, args, idx, stdout>>

\* The tool started with some command line; nothing is parsed or opened.
InitCli ==
    /\ chan = <<>>
    /\ calls = <<>>
    /\ pc = "import"
    /\ argv \in CommandLines
    /\ args = NoArgs
    /\ idx = 0
    /\ port = "unopened"
    /\ stdout = <<>>

NextCli ==
    \/ ImportSerial
    \/ ParseArgs
    \/ OpenPort
    \/ HandleAllRelays
    \/ HandleRelayOn
    \/ HandleRelayOff
    \/ HandleRelays
    \/ HandleGetSerial
    \/ HandleGetVersion
    \/ ClosePort

SpecCli == InitCli /\ [][NextCli]_vars

(* ---------------------- claims about single calls --------------------- *)

\* The channel calls made by logged call c, in order.
Block(c) == SubSeq(chan, c.first, c.last)
Reads(c) == SelectSeq(Block(c), LAMBDA e : e.op = "read")
Writes(c) == SelectSeq(Block(c), LAMBDA e : e.op = "write")
\* The logged calls, by their place in the log.
LoggedCalls == 1..Len(calls)
CallsOf(op) == {i \in LoggedCalls : calls[i].op = op}

\* C1: set_state(r, state) with r in 0..7 makes exactly one channel write,
\* of the single byte 101+r (on) or 111+r (off), and no channel read.
C1_SetStateWritesOpcode ==
    \A i \in CallsOf("set_state") : LET c == calls[i] IN
        c.args[1] \in 0..7 =>
            /\ Len(Block(c)) = 1
            /\ Len(Reads(c)) = 0
            /\ Block(c)[1].op = "write"
            /\ Block(c)[1].data =
                   <<(IF c.args[2] THEN 101 ELSE 111) + c.args[1]>>

C1_Witness ==
    \E i \in CallsOf("set_state") : LET c == calls[i] IN
        /\ c.args = <<7, FALSE>>
        /\ c.raised = "none"
        /\ Block(c)[1].data = <<118>>

\* C2: set_state(r, state) with an integer r outside 0..7 raises the
\* invalid-argument error (ValueError) and makes no channel call: the
\* channel's history after the call is the one before it.
C2_SetStateRejectsOutOfRange ==
    [][ ( /\ Len(calls') = Len(calls) + 1
          /\ calls'[Len(calls')].op = "set_state"
          /\ calls'[Len(calls')].args[1] \notin 0..7 )
        => ( /\ calls'[Len(calls')].raised = "ValueError"
             /\ chan' = chan ) ]_vars

C2_Witness ==
    \E i \in CallsOf("set_state") : LET c == calls[i] IN
        c.args[1] = 8 /\ c.raised = "ValueError" /\ Block(c) = <<>>

\* C3: set_states(m) with an int m in 0..255 makes exactly one channel
\* write, of the two bytes [92, m], and no read; with an int m outside
\* 0..255 it raises ValueError and makes no channel call.
C3_SetStatesWritesMask ==
    \A i \in CallsOf("set_states") : LET c == calls[i] IN
        c.args[1].type = "int" =>
            IF c.args[1].v \in 0..255
            THEN /\ Len(Block(c)) = 1
                 /\ Block(c)[1].op = "write"
                 /\ Block(c)[1].data = <<92, c.args[1].v>>
            ELSE /\ c.raised = "ValueError"
                 /\ Block(c) = <<>>

C3_Witness ==
    \E i \in CallsOf("set_states") : LET c == calls[i] IN
        /\ c.args[1] = [type |-> "int", v |-> 255]
        /\ c.raised = "none"
        /\ Block(c)[1].data = <<92, 255>>

\* C4: set_all(True) writes exactly [100] and set_all(False) exactly [110]:
\* one channel write, no read, and never a ValueError.
C4_SetAllWritesOpcode ==
    \A i \in CallsOf("set_all") : LET c == calls[i] IN
        /\ Len(Block(c)) = 1
        /\ Block(c)[1].op = "write"
        /\ Block(c)[1].data = <<IF c.args[1] THEN 100 ELSE 110>>
        /\ c.raised # "ValueError"

C4_Witness ==
    \E i \in CallsOf("set_all") : LET c == calls[i] IN
        ~c.args[1] /\ c.raised = "none" /\ Block(c)[1].data = <<110>>

\* The number of response bytes each query needs.
Needs(op) == CASE op = "get_states" -> 1
               [] op = "get_serial" -> 8
               [] op = "get_sw_version" -> 2
\* The command byte each query sends.
Asks(op) == CASE op = "get_states" -> 91
              [] op = "get_serial" -> 56
              [] op = "get_sw_version" -> 90
Queries == {"get_states", "get_serial", "get_sw_version"}
QueryCalls == {i \in LoggedCalls : calls[i].op \in Queries}

\* C5: whenever the read of a query returns fewer bytes than the query
\* needs (1, 8, 2), 0 bytes included, the query raises the short-read
\* error (OSError) and returns no value.
C5_ShortReadRaises ==
    \A i \in QueryCalls : LET c == calls[i] IN
        \A k \in 1..Len(Block(c)) :
            ( /\ Block(c)[k].op = "read"
              /\ Block(c)[k].ok
              /\ Len(Block(c)[k].data) < Needs(c.op) )
            => c.raised = "OSError" /\ c.ret.kind = "raise"

C5_Witness ==
    \E i \in CallsOf("get_states") : LET c == calls[i] IN
        /\ Len(Block(c)) = 2 /\ Block(c)[2].ok /\ Block(c)[2].data = <<>>
        /\ c.raised = "OSError"

\* The read of query call c returned every byte the query needs.
FullResponse(c) ==
    /\ Len(Block(c)) = 2
    /\ Block(c)[1].op = "write" /\ Block(c)[1].data = <<Asks(c.op)>>
    /\ Block(c)[2].op = "read" /\ Block(c)[2].ok
    /\ Len(Block(c)[2].data) = Needs(c.op)

\* C6: on a full response get_states, having written [91] and read the
\* byte b, returns the int b (in 0..255), and get_sw_version, having written
\* [90] and read b0, b1, returns the pair (b0, b1).
C6_QueriesReturnBytesUnaltered ==
    /\ \A i \in CallsOf("get_states") : LET c == calls[i] IN
          FullResponse(c) =>
              /\ c.raised = "none"
              /\ c.ret.kind = "int"
              /\ c.ret.v = Block(c)[2].data[1]
              /\ c.ret.v \in 0..255
    /\ \A i \in CallsOf("get_sw_version") : LET c == calls[i] IN
          FullResponse(c) =>
              /\ c.raised = "none"
              /\ c.ret.kind = "tuple"
              /\ Len(c.ret.v) = 2
              /\ c.ret.v[1] = Block(c)[2].data[1]
              /\ c.ret.v[2] = Block(c)[2].data[2]

C6_Witness ==
    \E i \in CallsOf("get_sw_version") : LET c == calls[i] IN
        /\ FullResponse(c)
        /\ Block(c)[2].data = <<5, 2>>
        /\ c.ret.kind = "tuple" /\ c.ret.v = <<5, 2>>

\* C7: get_serial first writes exactly [56] and its read, made right after
\* that write, asks 8 bytes; on 8 bytes that are all ASCII it returns the
\* text of those bytes in order; on 8 bytes of which one is not ASCII it
\* raises the decode error and returns no text.
C7_GetSerialDecodesAscii ==
    \A i \in CallsOf("get_serial") : LET c == calls[i] IN
        /\ Len(Block(c)) >= 1
        /\ Block(c)[1].op = "write" /\ Block(c)[1].data = <<56>>
        /\ Block(c)[1].ok =>
              /\ Len(Block(c)) = 2
              /\ Block(c)[2].op = "read" /\ Block(c)[2].size = 8
        /\ \A k \in 1..Len(Block(c)) :
              Block(c)[k].op = "read" => k = 2 /\ Block(c)[k].size = 8
        /\ FullResponse(c) =>
              IF \A k \in 1..8 : Block(c)[2].data[k] \in 0..127
              THEN /\ c.raised = "none"
                   /\ c.ret.kind = "str"
                   /\ Len(c.ret.v) = 8
                   /\ \A k \in 1..8 : c.ret.v[k] = Block(c)[2].data[k]
              ELSE /\ c.raised = "UnicodeDecodeError"
                   /\ c.ret.kind = "raise"

C7_Witness ==
    \E i \in CallsOf("get_serial") : LET c == calls[i] IN
        /\ FullResponse(c)
        /\ Block(c)[2].data[8] = 128
        /\ c.raised = "UnicodeDecodeError"

\* C8: when a channel write or read raises during a codec call, the call
\* raises that error, returns no value and makes no channel call after the
\* failed one (a query whose write fails makes no read); no call makes more
\* than one write or more than one read.
C8_ChannelErrorFailsFast ==
    \A i \in LoggedCalls : LET c == calls[i] IN
        /\ \A k \in 1..Len(Block(c)) :
              ~Block(c)[k].ok =>
                  /\ c.raised = "ChannelError"
                  /\ c.ret.kind = "raise"
                  /\ k = Len(Block(c))
        /\ Len(Writes(c)) <= 1
        /\ Len(Reads(c)) <= 1

C8_Witness ==
    \E i \in QueryCalls : LET c == calls[i] IN
        /\ Len(Block(c)) = 1 /\ ~Block(c)[1].ok
        /\ c.raised = "ChannelError"

(* --------------------- claims about call sequences -------------------- *)

Setters == {"set_state", "set_states", "set_all"}

\* The block of channel calls the claim gives each kind of call: nothing
\* for a rejected argument, one write for a setter, one write and then one
\* read for a query.
ShapeAsClaimed(c, b) ==
    IF c.raised = "ValueError" THEN b = <<>>
    ELSE IF c.op \in Setters
         THEN Len(b) = 1 /\ b[1].op = "write"
         ELSE Len(b) = 2 /\ b[1].op = "write" /\ b[2].op = "read"

\* The same, but a query whose write raised contributes that write alone.
ShapeAmended(c, b) ==
    IF c.raised = "ValueError" THEN b = <<>>
    ELSE IF c.op \in Setters
         THEN Len(b) = 1 /\ b[1].op = "write"
         ELSE \/ Len(b) = 2 /\ b[1].op = "write" /\ b[1].ok
                            /\ b[2].op = "read"
              \/ Len(b) = 1 /\ b[1].op = "write" /\ ~b[1].ok
                            /\ c.raised = "ChannelError"

\* History h is the concatenation of one block per call of cs, in order,
\* each block of the shape its call has as claimed, or as amended.
RECURSIVE Concatenation(_, _, _)
Concatenation(h, cs, amended) ==
    IF cs = <<>> THEN h = <<>>
    ELSE \E n \in 0..2 :
            /\ n <= Len(h)
            /\ IF amended THEN ShapeAmended(Head(cs), SubSeq(h, 1, n))
                          ELSE ShapeAsClaimed(Head(cs), SubSeq(h, 1, n))
            /\ Concatenation(SubSeq(h, n + 1, Len(h)), Tail(cs), amended)

\* Every read of the history comes directly after a write of a query's
\* command byte.
ReadsFollowWrites ==
    \A k \in 1..Len(chan) :
        chan[k].op = "read" =>
            /\ k > 1
            /\ chan[k - 1].op = "write"
            /\ chan[k - 1].data \in {<<91>>, <<56>>, <<90>>}

\* C9 as claimed: after any sequence of codec calls the channel's history is
\* the concatenation of one block per call: nothing (argument rejected), one
\* write (a setter), or one write directly followed by one read (a query).
C9_HistoryAsClaimed ==
    /\ Concatenation(chan, calls, FALSE)
    /\ ReadsFollowWrites

\* C9 amended: as claimed, except that a query whose write raised a channel
\* error contributes that one write and no read.
C9_HistoryOfBlocks ==
    /\ Concatenation(chan, calls, TRUE)
    /\ ReadsFollowWrites

C9_Witness ==
    /\ Len(calls) = 3
    /\ calls[1].op = "set_state" /\ calls[1].raised = "ValueError"
    /\ calls[2].op = "get_serial" /\ calls[2].raised = "OSError"
    /\ calls[3].op = "set_all" /\ calls[3].raised = "none"
    /\ Len(chan) = 3
    /\ chan[1].op = "write" /\ chan[2].op = "read" /\ chan[3].op = "write"

(* --------------------- claims about the command line ------------------ *)

\* The device commands issued so far: the payloads of the channel writes.
Sent ==
    LET w == SelectSeq(chan, LAMBDA e : e.op = "write")
    IN  [k \in 1..Len(w) |-> w[k].data]

\* The commands the claim expects for the command line, whatever the order
\* of its options: the all-relays command, the --relay-on commands in the
\* order given, the --relay-off commands in the order given, then the state,
\* serial and version queries.
OptionValues(o) ==
    LET g == SelectSeq(argv, LAMBDA t : t.opt = o)
    IN  [k \in 1..Len(g) |-> g[k].val]
FixedOrder ==
    LET a == OptionValues("--all-relays")
        n == OptionValues("--relay-on")
        f == OptionValues("--relay-off")
    IN  (IF a = <<>> THEN <<>>
         ELSE IF a[Len(a)] = "on" THEN << <<100>> >> ELSE << <<110>> >>)
        \o [k \in 1..Len(n) |-> <<101 + n[k]>>]
        \o [k \in 1..Len(f) |-> <<111 + f[k]>>]
        \o (IF OptionValues("--relays") = <<>> THEN <<>> ELSE << <<91>> >>)
        \o (IF OptionValues("--get-serial") = <<>> THEN <<>> ELSE << <<56>> >>)
        \o (IF OptionValues("--get-version") = <<>> THEN <<>> ELSE << <<90>> >>)

IsPrefix(p, q) == Len(p) <= Len(q) /\ p = SubSeq(q, 1, Len(p))

\* C10: the tool issues its commands in the fixed order above, whatever the
\* order of the options, and closes the port only after all of them; so no
\* relay is commanded on after it was commanded off, a relay given to both
\* --relay-on and --relay-off is last commanded off, and the all-relays
\* command comes before every single-relay command.
C10_FixedCommandOrder ==
    /\ IsPrefix(Sent, FixedOrder)
    /\ port = "closed" => Sent = FixedOrder
    /\ \A i \in 1..Len(Sent) : \A j \in 1..Len(Sent) :
          \A r \in 0..7 :
              (Sent[i] = <<111 + r>> /\ Sent[j] = <<101 + r>>) => j < i
    /\ port = "closed" =>
          \A r \in 0..7 :
              ( /\ \E k \in 1..Len(argv) :
                      argv[k] = [opt |-> "--relay-on", val |-> r]
                /\ \E k \in 1..Len(argv) :
                      argv[k] = [opt |-> "--relay-off", val |-> r] )
              => \E i \in 1..Len(Sent) :
                    /\ Sent[i] = <<111 + r>>
                    /\ \A j \in (i + 1)..Len(Sent) : Sent[j] # <<101 + r>>
    /\ \A i \in 1..Len(Sent) : Sent[i] \in {<<100>>, <<110>>} => i = 1

C10_Witness ==
    /\ port = "closed"
    /\ argv = <<[opt |-> "--relay-off", val |-> 7],
                [opt |-> "--relay-on", val |-> 7],
                [opt |-> "--all-relays", val |-> "on"]>>
    /\ Sent = << <<100>>, <<108>>, <<118>> >>

====
